---------------------------- MODULE Spec2Model ----------------------------
(***************************************************************************)
(* A model of the DFA engine of dfa.py (class DFA: load, accepts,          *)
(* __invert__, __or__, __and__, __xor__, get_example, minimize) and of the *)
(* equivalence check of main.py (submit_dfa_solution).                     *)
(*                                                                         *)
(* Python values are represented as follows.                               *)
(*   str            a TLA+ string (Len, \o, Head, Tail act on characters)  *)
(*   None / value   <<>> / <<value>>                                       *)
(*   dict           a sequence of <<key, value>> pairs with distinct keys, *)
(*                  in insertion order                                     *)
(*   State          [name, accepting, transition]; transition is a dict    *)
(*                  symbol -> name of the destination, which is a State of *)
(*                  the same states dict (every constructor of the source  *)
(*                  wires transitions inside the dict it is building)      *)
(*   State ref      [g |-> the states dict the State lives in, name]       *)
(*   DFA            [alphabet, initial_state, states]                      *)
(***************************************************************************)
EXTENDS Integers, Sequences, FiniteSets, TLC

VARIABLES
    dfa,        \* first DFA object (the learner's automaton in main.py)
    other,      \* second DFA object (the reference solution in main.py)
    res,        \* <<>> or <<DFA>>: the automaton the last combinator returned
    loadRes,    \* per object, <<>> or <<result of its most recent load>>
    out,        \* what the last finished call returned or raised
    call,       \* the call in progress: get_example, minimize, or none
    visited,    \* get_example: names of the visited states
    q,          \* get_example: the queue of <<state name, path>>
    partition,  \* minimize: list of sets of state names
    group_map,  \* minimize: state name -> group id
    splitters,  \* minimize: set of pending group ids
    loop        \* minimize: position inside the while/for loops

vars == <<dfa, other, res, loadRes, out, call, visited, q,
          partition, group_map, splitters, loop>>

---------------------------------------------------------------------------
(* Python dicts.                                                           *)

Keys(d) == [i \in 1..Len(d) |-> d[i][1]]

Values(d) == [i \in 1..Len(d) |-> d[i][2]]

Has(d, k) == \E i \in 1..Len(d) : d[i][1] = k

Get(d, k) == d[CHOOSE i \in 1..Len(d) : d[i][1] = k][2]

Put(d, k, v) ==
    IF Has(d, k)
    THEN [i \in 1..Len(d) |-> IF d[i][1] = k THEN <<k, v>> ELSE d[i]]
    ELSE Append(d, <<k, v>>)

Range(s) == {s[i] : i \in 1..Len(s)}

\* for x in seq: acc = Body(acc, x).  The sequence is cut in halves, and the
\* first half is done before the second is begun, so that the nesting of the
\* evaluation grows with the logarithm of Len(seq) only.
RECURSIVE ForEach(_, _, _)
ForEach(Body(_, _), acc, seq) ==
    IF seq = <<>> THEN acc
    ELSE IF Len(seq) = 1 THEN Body(acc, seq[1])
    ELSE LET h == Len(seq) \div 2
         IN  CHOOSE r \in {ForEach(Body, m, SubSeq(seq, h + 1, Len(seq))) :
                              m \in {ForEach(Body, acc, SubSeq(seq, 1, h))}} : TRUE

---------------------------------------------------------------------------
(* class State and class DFA.                                              *)

NewState(name) == [name |-> name, accepting |-> FALSE, transition |-> <<>>]

NewDFA == [alphabet |-> <<>>, initial_state |-> <<>>, states |-> <<>>]

MakeDFA(alphabet, initial_state, states) ==
    [alphabet |-> <<alphabet>>, initial_state |-> <<initial_state>>,
     states |-> states]

Ref(g, name) == [g |-> g, name |-> name]

Deref(r) == Get(r.g, r.name)

NotLoaded(self) == self.initial_state = <<>> \/ self.alphabet = <<>>

---------------------------------------------------------------------------
(* DFA.load.  data is the parsed document: the five fields, and            *)
(* data.missing, the fields the document lacks (the shape tier).           *)

SchemaErrors(data) ==
    [i \in 1..Len(data.missing) |->
        "Field '" \o data.missing[i] \o "': Field required"]

\* for symbol in self.alphabet: ... is not a single character
AlphabetErrors(alphabet) ==
    ForEach(LAMBDA errors, symbol :
                IF Len(symbol) # 1
                THEN Append(errors, "Symbol '" \o symbol
                                    \o "' is not a single character.")
                ELSE errors,
            <<>>, alphabet)

\* for state in data['states']: self.states[state] = State(state)
CreateStates(names) ==
    ForEach(LAMBDA states, state : Put(states, state, NewState(state)),
            <<>>, names)

\* st is [states, errors]
SetAccepting(st0, accepting_states) ==
    ForEach(LAMBDA st, accepting :
                IF ~Has(st.states, accepting)
                THEN [st EXCEPT !.errors = Append(@,
                        "Accepting state '" \o accepting \o "' not in states.")]
                ELSE [st EXCEPT !.states = Put(@, accepting,
                        [Get(st.states, accepting) EXCEPT !.accepting = TRUE])],
            st0, accepting_states)

\* for symbol, dest in transitions.items()
SetRow(st0, state, transitions) ==
    ForEach(LAMBDA st, item :
                IF ~Has(st.states, item[2])
                THEN [st EXCEPT !.errors = Append(@,
                        "State '" \o item[2]
                        \o "' in transition function not in states.")]
                ELSE [st EXCEPT !.states = Put(@, state,
                        [Get(st.states, state) EXCEPT
                            !.transition = Put(@, item[1], item[2])])],
            st0, transitions)

\* for state, transitions in data['transitions'].items()
SetTransitions(st0, transitions) ==
    ForEach(LAMBDA st, item :
                IF ~Has(st.states, item[1])
                THEN [st EXCEPT !.errors = Append(@,
                        "State '" \o item[1]
                        \o "' in transition function not in states.")]
                ELSE SetRow(st, item[1], item[2]),
            st0, transitions)

\* for symbol in self.alphabet: if symbol not in state.transition
MissingForState(errors0, state, alphabet) ==
    ForEach(LAMBDA errors, symbol :
                IF ~Has(state.transition, symbol)
                THEN Append(errors, "State '" \o state.name
                                    \o "' missing transition for symbol '"
                                    \o symbol \o "'.")
                ELSE errors,
            errors0, alphabet)

\* for state in self.states.values()
MissingTransitions(states, alphabet) ==
    ForEach(LAMBDA errors, item : MissingForState(errors, item[2], alphabet),
            <<>>, states)

LoadResult(errors) == [success |-> Len(errors) = 0, errors |-> errors]

Load(self, data) ==
    IF data.missing # <<>>
    THEN [dfa |-> self, result |-> LoadResult(SchemaErrors(data))]
    ELSE
    LET alphabet == data.alphabet
        e1       == AlphabetErrors(alphabet)
        states0  == CreateStates(data.states)
        initOK   == Has(states0, data.initial_state)
        e2       == IF initOK THEN e1
                    ELSE Append(e1, "Initial state '" \o data.initial_state
                                    \o "' not in states.")
        st3      == SetAccepting([states |-> states0, errors |-> e2],
                                 data.accepting_states)
        st4      == SetTransitions(st3, data.transitions)
        errors   == IF st4.errors = <<>>
                    THEN MissingTransitions(st4.states, alphabet)
                    ELSE st4.errors
    IN  [dfa |-> [alphabet      |-> <<alphabet>>,
                  initial_state |-> IF initOK
                                    THEN <<Ref(st4.states, data.initial_state)>>
                                    ELSE self.initial_state,
                  states        |-> st4.states],
         result |-> LoadResult(errors)]

---------------------------------------------------------------------------
(* What a call does: it returns a value or raises an exception.            *)

Return(v) == [kind |-> "return", value |-> v]

Raise(exc, msg) == [kind |-> "raise", value |-> [exc |-> exc, msg |-> msg]]

Raised(o) == o.kind = "raise"

NotLoadedError == Raise("RuntimeError", "DFA not loaded. Call load() successfully first.")

OtherNotLoadedError ==
    Raise("RuntimeError", "Other DFA not loaded. Call load() successfully first.")

AlphabetMismatchError == Raise("ValueError", "Alphabets of both DFAs must be the same.")

---------------------------------------------------------------------------
(* DFA.accepts.                                                            *)

\* the loop of accepts: current_state is a State of the dict g
RECURSIVE AcceptsLoop(_, _, _, _)
AcceptsLoop(g, current_state, input_string, alphabet) ==
    IF input_string = "" THEN
        Return([success |-> TRUE, accepted |-> current_state.accepting,
                errors |-> <<>>])
    ELSE LET symbol == Head(input_string)
         IN  IF symbol \notin Range(alphabet) THEN
                 Return([success |-> FALSE,
                         errors |-> <<"Symbol '" \o symbol \o "' not in alphabet.">>])
             ELSE IF ~Has(current_state.transition, symbol) THEN
                 Raise("KeyError", symbol)
             ELSE AcceptsLoop(g, Get(g, Get(current_state.transition, symbol)),
                              Tail(input_string), alphabet)

Accepts(self, input_string) ==
    IF NotLoaded(self) THEN NotLoadedError
    ELSE AcceptsLoop(self.initial_state[1].g, Deref(self.initial_state[1]),
                     input_string, self.alphabet[1])

---------------------------------------------------------------------------
(* DFA.__invert__.                                                         *)

InvertState(old_state) ==
    [name |-> old_state.name, accepting |-> ~old_state.accepting,
     transition |-> [i \in 1..Len(old_state.transition) |->
                        <<old_state.transition[i][1], old_state.transition[i][2]>>]]

Invert(self) ==
    IF NotLoaded(self) THEN NotLoadedError
    ELSE LET new_states == [i \in 1..Len(self.states) |->
                               <<self.states[i][1], InvertState(self.states[i][2])>>]
             init == self.initial_state[1].name
         IN  IF ~Has(new_states, init) THEN Raise("KeyError", init)
             ELSE Return(MakeDFA(self.alphabet[1], Ref(new_states, init), new_states))

---------------------------------------------------------------------------
(* DFA.__or__.                                                             *)

PairName(name1, name2) == name1 \o "_" \o name2

\* all <<state1, state2>> in the order of the nested loops
Pairs(states1, states2) ==
    ForEach(LAMBDA pairs, item :
                pairs \o [j \in 1..Len(states2) |-> <<item[2], states2[j][2]>>],
            <<>>, states1)

\* first loop: one State per pair, stored under the pair's name
CreateProduct(pairs) ==
    ForEach(LAMBDA new_states, pair :
                Put(new_states, PairName(pair[1].name, pair[2].name),
                    [NewState(PairName(pair[1].name, pair[2].name)) EXCEPT
                        !.accepting = pair[1].accepting \/ pair[2].accepting]),
            <<>>, pairs)

\* st is [states, err]; err is <<>> or <<the exception raised>>, after which
\* nothing more is done
WireSymbols(st0, state1, state2, alphabet) ==
    ForEach(LAMBDA st, symbol :
                IF st.err # <<>> THEN st
                ELSE IF ~Has(state1.transition, symbol)
                        \/ ~Has(state2.transition, symbol)
                THEN [st EXCEPT !.err = <<Raise("KeyError", symbol)>>]
                ELSE IF ~Has(st.states, PairName(Get(state1.transition, symbol),
                                                 Get(state2.transition, symbol)))
                THEN [st EXCEPT !.err = <<Raise("KeyError",
                                           PairName(Get(state1.transition, symbol),
                                                    Get(state2.transition, symbol)))>>]
                ELSE [st EXCEPT !.states =
                        Put(@, PairName(state1.name, state2.name),
                            [Get(st.states, PairName(state1.name, state2.name))
                                EXCEPT !.transition =
                                    Put(@, symbol,
                                        PairName(Get(state1.transition, symbol),
                                                 Get(state2.transition, symbol)))])],
            st0, alphabet)

\* second loop
WireProduct(st0, pairs, alphabet) ==
    ForEach(LAMBDA st, pair : WireSymbols(st, pair[1], pair[2], alphabet),
            st0, pairs)

Or(self, other_dfa) ==
    IF NotLoaded(self) THEN NotLoadedError
    ELSE IF NotLoaded(other_dfa) THEN OtherNotLoadedError
    ELSE IF self.alphabet # other_dfa.alphabet THEN AlphabetMismatchError
    ELSE LET pairs == Pairs(self.states, other_dfa.states)
             st    == WireProduct([states |-> CreateProduct(pairs),
                                   err |-> <<>>],
                                  pairs, self.alphabet[1])
             init  == PairName(self.initial_state[1].name,
                               other_dfa.initial_state[1].name)
         IN  IF st.err # <<>> THEN st.err[1]
             ELSE IF ~Has(st.states, init) THEN Raise("KeyError", init)
             ELSE Return(MakeDFA(self.alphabet[1], Ref(st.states, init), st.states))

---------------------------------------------------------------------------
(* DFA.__and__ and DFA.__xor__, built from __invert__ and __or__; an       *)
(* exception raised by an operand ends the expression.                     *)

InvertOf(o) == IF Raised(o) THEN o ELSE Invert(o.value)

OrOf(o1, o2) ==
    IF Raised(o1) THEN o1 ELSE IF Raised(o2) THEN o2 ELSE Or(o1.value, o2.value)

\* ~(~self | ~other)
AndOf(o1, o2) == InvertOf(OrOf(InvertOf(o1), InvertOf(o2)))

And(self, other_dfa) == AndOf(Return(self), Return(other_dfa))

\* (self | other) & ~(self & other)
Xor(self, other_dfa) ==
    AndOf(Or(self, other_dfa), InvertOf(And(self, other_dfa)))

---------------------------------------------------------------------------
(* The state machine.  A call on an object is one step, except the two     *)
(* loops, get_example and minimize, which take one step per iteration.     *)

NoCall == [op |-> "none"]

NoOut == [op |-> "none"]

Idle == call.op = "none"

Self(o) == CASE o = "dfa"   -> dfa
             [] o = "other" -> other
             [] o = "res"   -> res[1].dfa

Exists(o) == o \in {"dfa", "other"} \/ (o = "res" /\ res # <<>>)

\* the initial value of the variables of the two loops
LoopIdle ==
    /\ visited = {} /\ q = <<>>
    /\ partition = <<>> /\ group_map = <<>> /\ splitters = {}
    /\ loop = [pc |-> "none"]

NoLoop == UNCHANGED <<visited, q, partition, group_map, splitters, loop>>

ResetLoop ==
    /\ visited' = {} /\ q' = <<>>
    /\ partition' = <<>> /\ group_map' = <<>> /\ splitters' = {}
    /\ loop' = [pc |-> "none"]

\* dfa.load(source) / other.load(source); res is dropped, as the automaton a
\* combinator returned says nothing about the reloaded operand
CallLoad(o, data) ==
    /\ Idle
    /\ o \in {"dfa", "other"}
    /\ LET r == Load(Self(o), data)
       IN  /\ dfa' = IF o = "dfa" THEN r.dfa ELSE dfa
           /\ other' = IF o = "other" THEN r.dfa ELSE other
           /\ loadRes' = [loadRes EXCEPT ![o] = <<r.result>>]
           /\ out' = [op |-> "load", self |-> o, outcome |-> Return(r.result)]
    /\ res' = <<>>
    /\ ResetLoop
    /\ UNCHANGED call

CallAccepts(o, input_string) ==
    /\ Idle
    /\ Exists(o)
    /\ out' = [op |-> "accepts", self |-> o, input_string |-> input_string,
               outcome |-> Accepts(Self(o), input_string)]
    /\ ResetLoop
    /\ UNCHANGED <<dfa, other, res, loadRes, call>>

\* the value a combinator returned is kept in res; out records how it ended
Combined(op, o, outcome) ==
    /\ res' = IF Raised(outcome) THEN <<>>
              ELSE <<[op |-> op, self |-> o, dfa |-> outcome.value]>>
    /\ out' = [op |-> op, self |-> o,
               outcome |-> IF Raised(outcome) THEN outcome ELSE Return("DFA")]
    /\ ResetLoop
    /\ UNCHANGED <<dfa, other, loadRes, call>>

\* ~dfa, ~other
CallInvert(o) ==
    /\ Idle
    /\ o \in {"dfa", "other"}
    /\ Combined("invert", o, Invert(Self(o)))

\* dfa | other
CallOr ==
    /\ Idle
    /\ Combined("or", "dfa", Or(dfa, other))

\* dfa & other
CallAnd ==
    /\ Idle
    /\ Combined("and", "dfa", And(dfa, other))

\* dfa ^ other
CallXor ==
    /\ Idle
    /\ Combined("xor", "dfa", Xor(dfa, other))

---------------------------------------------------------------------------
(* DFA.get_example: the breadth-first loop, one dequeue per step.          *)

\* what the caller of get_example makes of the example (<<>> is None)
ExampleReturn(example) ==
    IF call.for = "submit"
    THEN Return([success |-> example = <<>>, example |-> example])
    ELSE Return(example)

StartGetExample(self, o, accepted, for) ==
    /\ visited' = {}
    /\ q' = <<<<self.initial_state[1].name, "">>>>
    /\ call' = [op |-> "get_example", self |-> o, accepted |-> accepted,
                g |-> self.initial_state[1].g, for |-> for]
    /\ out' = NoOut
    /\ partition' = <<>> /\ group_map' = <<>> /\ splitters' = {}
    /\ loop' = [pc |-> "none"]

GetExampleCall(o, accepted) ==
    /\ Idle
    /\ Exists(o)
    /\ IF NotLoaded(Self(o))
       THEN /\ out' = [op |-> "get_example", self |-> o, accepted |-> accepted,
                       outcome |-> NotLoadedError]
            /\ ResetLoop
            /\ UNCHANGED call
       ELSE /\ StartGetExample(Self(o), o, accepted, "caller")
    /\ UNCHANGED <<dfa, other, res, loadRes>>

GetExampleFinish(example) ==
    /\ out' = [op |-> IF call.for = "submit" THEN "submit" ELSE "get_example",
               self |-> call.self, accepted |-> call.accepted,
               outcome |-> ExampleReturn(example)]
    /\ call' = NoCall

\* state, path = q.get(); if state in visited: continue
GetExampleSkip ==
    /\ call.op = "get_example"
    /\ q # <<>>
    /\ Head(q)[1] \in visited
    /\ q' = Tail(q)
    /\ UNCHANGED <<dfa, other, res, loadRes, out, call, visited,
                   partition, group_map, splitters, loop>>

\* if state.accepting == accepted: return path
GetExampleFound ==
    /\ call.op = "get_example"
    /\ q # <<>>
    /\ Head(q)[1] \notin visited
    /\ Get(call.g, Head(q)[1]).accepting = call.accepted
    /\ visited' = visited \cup {Head(q)[1]}
    /\ q' = Tail(q)
    /\ GetExampleFinish(<<Head(q)[2]>>)
    /\ UNCHANGED <<dfa, other, res, loadRes, partition, group_map, splitters, loop>>

\* for symbol, dest in state.transition.items(): q.put((dest, path + symbol))
GetExampleExpand ==
    /\ call.op = "get_example"
    /\ q # <<>>
    /\ Head(q)[1] \notin visited
    /\ Get(call.g, Head(q)[1]).accepting # call.accepted
    /\ visited' = visited \cup {Head(q)[1]}
    /\ LET path == Head(q)[2]
           transition == Get(call.g, Head(q)[1]).transition
       IN  q' = Tail(q) \o [i \in 1..Len(transition) |->
                               <<transition[i][2], path \o transition[i][1]>>]
    /\ UNCHANGED <<dfa, other, res, loadRes, out, call,
                   partition, group_map, splitters, loop>>

\* the queue is empty: return None
GetExampleNone ==
    /\ call.op = "get_example"
    /\ q = <<>>
    /\ GetExampleFinish(<<>>)
    /\ UNCHANGED <<dfa, other, res, loadRes, visited, q,
                   partition, group_map, splitters, loop>>

---------------------------------------------------------------------------
(* DFA.minimize: the worklist loop, one step per pop, per symbol and per   *)
(* impacted group.  Group id i is partition[i + 1].  set.pop() and the     *)
(* iteration order of a set of State objects are left open by Python: any  *)
(* pending id may be popped, the impacted groups come in any order.        *)

StateNames(states) == Range(Keys(states))

AcceptingNames(states) == {n \in StateNames(states) : Get(states, n).accepting}

\* Reverse keyed by the destination alone: the states with a transition to
\* dest on any symbol
ReverseAnySymbol(states, dest, symbol) ==
    {n \in StateNames(states) :
        \E i \in 1..Len(Get(states, n).transition) :
            Get(states, n).transition[i][2] = dest}

\* reverse[(dest, symbol)]
Reverse(states, dest, symbol) ==
    {n \in StateNames(states) :
        /\ Has(Get(states, n).transition, symbol)
        /\ Get(Get(states, n).transition, symbol) = dest}

FirstSplitter(acc, non) == IF Cardinality(acc) < Cardinality(non) THEN 0 ELSE 1

MinimizeCall(o) ==
    /\ Idle
    /\ Exists(o)
    /\ LET self == Self(o)
           acc  == AcceptingNames(self.states)
           non  == StateNames(self.states) \ acc
       IN  IF NotLoaded(self) THEN
               /\ out' = [op |-> "minimize", self |-> o, outcome |-> NotLoadedError]
               /\ ResetLoop
               /\ UNCHANGED call
           ELSE IF acc = {} \/ non = {} THEN
               /\ out' = [op |-> "minimize", self |-> o, outcome |-> Return(1)]
               /\ ResetLoop
               /\ UNCHANGED call
           ELSE
               /\ partition' = <<acc, non>>
               /\ group_map' = [n \in StateNames(self.states) |->
                                   IF n \in acc THEN 0 ELSE 1]
               /\ splitters' = {FirstSplitter(acc, non)}
               /\ loop' = [pc |-> "while"]
               /\ call' = [op |-> "minimize", self |-> o, states |-> self.states,
                           alphabet |-> self.alphabet[1]]
               /\ out' = NoOut
               /\ visited' = {} /\ q' = <<>>
    /\ UNCHANGED <<dfa, other, res, loadRes>>

\* where the loops stand once the symbols before rest are done
AfterSymbol(splitter, rest) ==
    IF rest = <<>> THEN [pc |-> "while"]
    ELSE [pc |-> "for", splitter |-> splitter, symbols |-> rest]

\* splitter_id = splitters.pop(); splitter = partition[splitter_id]
MinPop ==
    /\ call.op = "minimize"
    /\ loop.pc = "while"
    /\ \E splitter_id \in splitters :
          /\ splitters' = splitters \ {splitter_id}
          /\ loop' = AfterSymbol(partition[splitter_id + 1], call.alphabet)
    /\ UNCHANGED <<dfa, other, res, loadRes, out, call, visited, q,
                   partition, group_map>>

\* X: the states that go into splitter on symbol
Preimage(states, splitter, symbol) ==
    UNION {Reverse(states, state, symbol) : state \in splitter}

\* impacted: the groups X meets, each with its part of X
Impacted(X, gm) ==
    [group_id \in {gm[state] : state \in X} |-> {state \in X : gm[state] = group_id}]

\* one symbol of the for loop: compute X and impacted
MinSymbol ==
    /\ call.op = "minimize"
    /\ loop.pc = "for"
    /\ LET symbol == Head(loop.symbols)
           X      == Preimage(call.states, loop.splitter, symbol)
       IN  loop' = IF X = {} THEN AfterSymbol(loop.splitter, Tail(loop.symbols))
                   ELSE [pc |-> "split", splitter |-> loop.splitter,
                         symbols |-> loop.symbols,
                         impacted |-> Impacted(X, group_map),
                         todo |-> DOMAIN Impacted(X, group_map)]
    /\ UNCHANGED <<dfa, other, res, loadRes, out, call, visited, q,
                   partition, group_map, splitters>>

\* which id joins the worklist when group_id was split into intersect and diff
NewSplitter(group_id, new_group_id, intersect, diff, pending) ==
    IF group_id \in pending THEN new_group_id
    ELSE IF Cardinality(intersect) < Cardinality(diff) THEN group_id
    ELSE new_group_id

\* one (group_id, intersect) of impacted.items()
MinSplit ==
    /\ call.op = "minimize"
    /\ loop.pc = "split"
    /\ \E group_id \in loop.todo :
          LET intersect    == loop.impacted[group_id]
              diff         == partition[group_id + 1] \ intersect
              new_group_id == Len(partition)
              todo         == loop.todo \ {group_id}
          IN  /\ IF Cardinality(intersect) < Cardinality(partition[group_id + 1])
                 THEN /\ partition' = Append([partition EXCEPT
                                                 ![group_id + 1] = intersect], diff)
                      /\ group_map' = [n \in DOMAIN group_map |->
                                          IF n \in diff THEN new_group_id
                                          ELSE group_map[n]]
                      /\ splitters' = splitters \cup
                            {NewSplitter(group_id, new_group_id, intersect, diff,
                                         splitters)}
                 ELSE UNCHANGED <<partition, group_map, splitters>>
              /\ loop' = IF todo = {}
                         THEN AfterSymbol(loop.splitter, Tail(loop.symbols))
                         ELSE [loop EXCEPT !.todo = todo]
    /\ UNCHANGED <<dfa, other, res, loadRes, out, call, visited, q>>

\* while splitters: ... return len(partition)
MinReturn ==
    /\ call.op = "minimize"
    /\ loop.pc = "while"
    /\ splitters = {}
    /\ out' = [op |-> "minimize", self |-> call.self,
               outcome |-> Return(Len(partition))]
    /\ call' = NoCall
    /\ loop' = [pc |-> "done"]
    /\ UNCHANGED <<dfa, other, res, loadRes, visited, q,
                   partition, group_map, splitters>>

---------------------------------------------------------------------------
(* main.py, submit_dfa_solution: the learner's document is loaded into a   *)
(* new DFA, the reference solution into another, and dfa ^ solution is     *)
(* searched for an accepted string.                                        *)

\* str(e) of the exceptions the engine raises
ExcStr(e) == IF e.exc = "KeyError" THEN "'" \o e.msg \o "'" ELSE e.msg

ServerError(e) ==
    [success |-> FALSE, errors |-> <<"Server error: " \o ExcStr(e)>>]

\* str(list) of error messages, each of which holds a single quote
RECURSIVE JoinRepr(_)
JoinRepr(errors) ==
    IF errors = <<>> THEN ""
    ELSE "\"" \o Head(errors) \o "\""
         \o (IF Len(errors) > 1 THEN ", " ELSE "") \o JoinRepr(Tail(errors))

SolutionError(result) ==
    [success |-> FALSE,
     errors |-> <<"Error loading solution: [" \o JoinRepr(result.errors) \o "]">>]

\* the three values the handler computes before it searches
SubmitValues(yaml_def, solution) ==
    LET l1 == Load(NewDFA, yaml_def)
        l2 == Load(NewDFA, solution)
    IN  [l1 |-> l1, l2 |-> l2,
         compare |-> IF l1.result.success /\ l2.result.success
                     THEN Xor(l1.dfa, l2.dfa) ELSE Return("unused")]

SubmitAnswer(v) == [op |-> "submit", self |-> "res", outcome |-> Return(v)]

Submit(yaml_def, solution) ==
    /\ Idle
    /\ \E v \in {SubmitValues(yaml_def, solution)} :
          IF ~v.l1.result.success THEN
              /\ dfa' = v.l1.dfa /\ other' = NewDFA /\ res' = <<>>
              /\ loadRes' = [dfa |-> <<v.l1.result>>, other |-> <<>>]
              /\ out' = SubmitAnswer(v.l1.result)
              /\ ResetLoop
              /\ UNCHANGED call
          ELSE IF ~v.l2.result.success THEN
              /\ dfa' = v.l1.dfa /\ other' = v.l2.dfa /\ res' = <<>>
              /\ loadRes' = [dfa |-> <<v.l1.result>>, other |-> <<v.l2.result>>]
              /\ out' = SubmitAnswer(SolutionError(v.l2.result))
              /\ ResetLoop
              /\ UNCHANGED call
          ELSE IF Raised(v.compare) THEN
              /\ dfa' = v.l1.dfa /\ other' = v.l2.dfa /\ res' = <<>>
              /\ loadRes' = [dfa |-> <<v.l1.result>>, other |-> <<v.l2.result>>]
              /\ out' = SubmitAnswer(ServerError(v.compare.value))
              /\ ResetLoop
              /\ UNCHANGED call
          ELSE
              /\ dfa' = v.l1.dfa /\ other' = v.l2.dfa
              /\ res' = <<[op |-> "xor", self |-> "dfa", dfa |-> v.compare.value]>>
              /\ loadRes' = [dfa |-> <<v.l1.result>>, other |-> <<v.l2.result>>]
              /\ StartGetExample(v.compare.value, "res", TRUE, "submit")

---------------------------------------------------------------------------
(* The documents handed to load.                                           *)

Doc(alphabet, states, initial_state, accepting_states, transitions) ==
    [alphabet |-> alphabet, states |-> states, initial_state |-> initial_state,
     accepting_states |-> accepting_states, transitions |-> transitions,
     missing |-> <<>>]

\* a state's line of the transitions mapping, over the symbols 0 and 1
Row(state, dest0, dest1) == <<state, << <<"0", dest0>>, <<"1", dest1>> >> >>

\* the same over the symbol 0 alone
Row0(state, dest0) == <<state, << <<"0", dest0>> >> >>

\* strings ending in 1
EndsIn1 ==
    Doc(<<"0", "1">>, <<"q0", "q1">>, "q0", <<"q1">>,
        <<Row("q0", "q0", "q1"), Row("q1", "q0", "q1")>>)

\* EndsIn1 with the accepting flag of its initial state swapped
EndsIn1Swapped ==
    [EndsIn1 EXCEPT !.accepting_states = <<"q1", "q0">>]

\* EndsIn1 with the alphabet listed in the other order
EndsIn1Reordered ==
    [EndsIn1 EXCEPT !.alphabet = <<"1", "0">>]

\* q1 has no transition on 1
MissingTransition ==
    [EndsIn1 EXCEPT !.transitions =
        <<Row("q0", "q0", "q1"), <<"q1", << <<"0", "q0">> >> >> >>]

\* the initial state is not one of the states
BadInitial ==
    [EndsIn1 EXCEPT !.initial_state = "q2", !.accepting_states = <<"q0">>]

\* the document has no transitions field
NoTransitions ==
    [EndsIn1 EXCEPT !.missing = <<"transitions">>]

\* q0 has a transition on x, which is not in the alphabet; q1 is reached by
\* it alone
ExtraSymbol ==
    Doc(<<"0", "1">>, <<"q0", "q1">>, "q0", <<"q1">>,
        << <<"q0", << <<"0", "q0">>, <<"1", "q0">>, <<"x", "q1">> >> >>,
           Row("q1", "q1", "q1") >>)

\* state names holding the separator of the product names
UnderscoreA ==
    Doc(<<"0">>, <<"a", "a_b">>, "a", <<>>,
        <<Row0("a", "a"), Row0("a_b", "a")>>)

UnderscoreB ==
    Doc(<<"0">>, <<"b_c", "c">>, "b_c", <<"b_c">>,
        <<Row0("b_c", "b_c"), Row0("c", "b_c")>>)

UnderscoreR ==
    Doc(<<"0">>, <<"a", "a_a", "a_a_a">>, "a_a", <<>>,
        <<Row0("a", "a"), Row0("a_a", "a"), Row0("a_a_a", "a")>>)

\* UnderscoreR with the accepting flag of its initial state swapped
UnderscoreL ==
    [UnderscoreR EXCEPT !.accepting_states = <<"a_a">>]

\* the documents the two objects of the library session are loaded with
LoadInputs ==
    [dfa   |-> {EndsIn1, MissingTransition, BadInitial, NoTransitions,
                ExtraSymbol, UnderscoreA},
     other |-> {EndsIn1Swapped, EndsIn1Reordered, MissingTransition, UnderscoreB}]

\* the documents submitted to the server, as learner's and as reference
SubmitInputs ==
    {EndsIn1, EndsIn1Swapped, EndsIn1Reordered, MissingTransition, ExtraSymbol,
     UnderscoreA, UnderscoreB, UnderscoreR, UnderscoreL}

\* the strings handed to accepts
TestStrings == {"", "1", "10", "x"}

---------------------------------------------------------------------------
(* The engine used as a library: two DFA objects, loaded any number of     *)
(* times, and every method called on them and on what the combinators      *)
(* return.                                                                 *)

Init ==
    /\ dfa = NewDFA
    /\ other = NewDFA
    /\ res = <<>>
    /\ loadRes = [dfa |-> <<>>, other |-> <<>>]
    /\ out = NoOut
    /\ call = NoCall
    /\ LoopIdle

GetExampleLoop ==
    \/ GetExampleSkip
    \/ GetExampleFound
    \/ GetExampleExpand
    \/ GetExampleNone

MinimizeLoop ==
    \/ MinPop
    \/ MinSymbol
    \/ MinSplit
    \/ MinReturn

Next ==
    \/ \E o \in {"dfa", "other"} : \E data \in LoadInputs[o] : CallLoad(o, data)
    \/ \E o \in {"dfa", "other", "res"}, s \in TestStrings : CallAccepts(o, s)
    \/ \E o \in {"dfa", "other"} : CallInvert(o)
    \/ CallOr
    \/ CallAnd
    \/ CallXor
    \/ \E o \in {"dfa", "other", "res"}, accepted \in BOOLEAN :
          GetExampleCall(o, accepted)
    \/ \E o \in {"dfa", "other", "res"} : MinimizeCall(o)
    \/ GetExampleLoop
    \/ MinimizeLoop

Spec == Init /\ [][Next]_vars

---------------------------------------------------------------------------
(* The server: one request to /submit after another.                       *)

NextSubmit ==
    \/ \E yaml_def \in SubmitInputs, solution \in SubmitInputs :
          Submit(yaml_def, solution)
    \/ GetExampleLoop

SpecSubmit == Init /\ [][NextSubmit]_vars

---------------------------------------------------------------------------
(* minimize on a family of automatons: up to MaxStates states q0, q1, ...  *)
(* over the symbols 0 and 1, q0 initial and accepting.  On 0 every state   *)
(* goes to q0 or steps two states on; on 1 every state steps to the next   *)
(* one, or every state stays.                                              *)

MaxStates == 5

NameList == <<"q0", "q1", "q2", "q3", "q4", "q5", "q6">>

\* the state i of n steps k states on, round the circle
Step(i, k, n) == ((i - 1 + k) % n) + 1

GenDoc(n, f0, f1, acc) ==
    Doc(<<"0", "1">>,
        SubSeq(NameList, 1, n),
        NameList[1],
        SelectSeq(SubSeq(NameList, 1, n),
                  LAMBDA name : \E i \in acc : NameList[i] = name),
        [i \in 1..n |-> Row(NameList[i], NameList[f0[i]], NameList[f1[i]])])

OnZero(n) == {f \in [1..n -> 1..n] : \A i \in 1..n : f[i] \in {1, Step(i, 2, n)}}

OnOne(n) == {[i \in 1..n |-> Step(i, 1, n)], [i \in 1..n |-> i]}

\* the accepting states: any set that holds the initial state
Accepting(n) == {acc \in SUBSET (1..n) : 1 \in acc}

MinInputs ==
    UNION {{GenDoc(n, f0, f1, acc) :
               f0 \in OnZero(n), f1 \in OnOne(n), acc \in Accepting(n)} :
           n \in 1..MaxStates}

InitMin ==
    /\ \E data \in MinInputs :
          /\ dfa = Load(NewDFA, data).dfa
          /\ loadRes = [dfa |-> <<Load(NewDFA, data).result>>, other |-> <<>>]
    /\ other = NewDFA
    /\ res = <<>>
    /\ out = NoOut
    /\ call = NoCall
    /\ LoopIdle

\* dfa.minimize(), once
MinimizeOnce ==
    /\ out = NoOut
    /\ MinimizeCall("dfa")

NextMin ==
    \/ MinimizeOnce
    \/ MinimizeLoop

SpecMin == InitMin /\ [][NextMin]_vars

\* the interpreter keeps running the loop it is in
FairSpecMin == SpecMin /\ WF_vars(MinimizeLoop)

---------------------------------------------------------------------------
(* The language of an automaton, for the properties below.                 *)

\* every string over the alphabet of at most k symbols
RECURSIVE StringsUpTo(_, _)
StringsUpTo(alphabet, k) ==
    IF k = 0 THEN {""}
    ELSE UNION {{s} \cup {s \o a : a \in Range(alphabet)} :
                   s \in StringsUpTo(alphabet, k - 1)}

\* the state the string drives the state called name to
RECURSIVE Drive(_, _, _)
Drive(states, name, string) ==
    IF string = "" THEN name
    ELSE Drive(states, Get(Get(states, name).transition, Head(string)),
               Tail(string))

\* some string drives one of p and r to an accepting state and the other to
\* a non-accepting one; strings as long as the automaton has states decide it
Distinguished(states, alphabet, p, r) ==
    \E string \in StringsUpTo(alphabet, Len(states)) :
        Get(states, Drive(states, p, string)).accepting
        # Get(states, Drive(states, r, string)).accepting

\* the states some string over the alphabet reaches from the initial state
Reachable(states, alphabet, initial) ==
    {Drive(states, initial, string) :
        string \in StringsUpTo(alphabet, Len(states))}

\* the number of states of the minimal automaton of the language: the
\* classes of the reachable states that no string distinguishes
MinimalSize(states, alphabet, initial) ==
    LET reach == Reachable(states, alphabet, initial)
    IN  Cardinality({{r \in reach : ~Distinguished(states, alphabet, p, r)} :
                        p \in reach})

LoadedOK(o) == loadRes[o] # <<>> /\ loadRes[o][1].success

\* accepts(self, string) returned success with accepted = flag
AcceptsAs(self, string, flag) ==
    Accepts(self, string)
        = Return([success |-> TRUE, accepted |-> flag, errors |-> <<>>])

\* the strings that decide whether two automatons differ: those of at most
\* as many symbols as the two have pairs of states
DecidingStrings(a, b) ==
    StringsUpTo(a.alphabet[1], Len(a.states) * Len(b.states))

\* both objects hold what a successful load left, over the same symbols
BothLoaded ==
    /\ LoadedOK("dfa")
    /\ LoadedOK("other")
    /\ Range(dfa.alphabet[1]) = Range(other.alphabet[1])

\* res is dfa | other
ResIsUnion == res # <<>> /\ res[1].op = "or" /\ BothLoaded

\* the server answered a submission of two automatons it could load
SubmitAnswered == out.op = "submit" /\ BothLoaded

\* l is r but for the accepting flag of one state, which the initial state
\* reaches
OneFlagSwapped(l, r) ==
    /\ l.alphabet = r.alphabet
    /\ Keys(l.states) = Keys(r.states)
    /\ l.initial_state[1].name = r.initial_state[1].name
    /\ \A i \in 1..Len(l.states) :
          l.states[i][2].transition = r.states[i][2].transition
    /\ \E n \in Reachable(r.states, r.alphabet[1], r.initial_state[1].name) :
          \A i \in 1..Len(l.states) :
              (l.states[i][2].accepting # r.states[i][2].accepting)
              <=> l.states[i][1] = n

---------------------------------------------------------------------------
(* C1: for two successfully loaded automatons with the same alphabet and   *)
(* every string over it, accepts on dfa | other succeeds, and its accepted *)
(* flag is accepts(dfa).accepted OR accepts(other).accepted.               *)
C1_UnionAcceptsEither ==
    ResIsUnion =>
        \A s \in DecidingStrings(dfa, other) :
            AcceptsAs(res[1].dfa, s,
                      AcceptsAs(dfa, s, TRUE) \/ AcceptsAs(other, s, TRUE))

(* C2: the equivalence check on two successfully loaded automatons with    *)
(* the same alphabet answers success = true and example = None exactly     *)
(* when the two accept the same strings, and otherwise success = false and *)
(* an example that exactly one of the two accepts.                         *)
C2_EquivalenceCheckDecides ==
    SubmitAnswered =>
        LET answer == out.outcome.value
            same   == \A s \in DecidingStrings(dfa, other) :
                          AcceptsAs(dfa, s, TRUE) <=> AcceptsAs(other, s, TRUE)
        IN  /\ "example" \in DOMAIN answer
            /\ IF same
               THEN answer = [success |-> TRUE, example |-> <<>>]
               ELSE /\ answer.success = FALSE
                    /\ answer.example # <<>>
                    /\ AcceptsAs(dfa, answer.example[1], TRUE)
                       # AcceptsAs(other, answer.example[1], TRUE)

(* C3: minimize returns the number of states of the minimal automaton of   *)
(* the language of the automaton, whether or not all its states can be     *)
(* reached from the initial state.                                         *)
C3_MinimizeIsMinimalSize ==
    (out.op = "minimize" /\ out.self = "dfa" /\ LoadedOK("dfa"))
        => out.outcome = Return(MinimalSize(dfa.states, dfa.alphabet[1],
                                            dfa.initial_state[1].name))

(* C4: get_example on a successfully loaded automaton returns None        *)
(* exactly when no string over the alphabet drives the automaton from its  *)
(* initial state to a state whose accepting flag is the target, and a      *)
(* string it returns is one accepts answers with success = true and        *)
(* accepted = the target.                                                  *)
C4_ExampleIsWitness ==
    (/\ out.op = "get_example"
     /\ out.self \in {"dfa", "other"}
     /\ LoadedOK(out.self))
        => LET self == Self(out.self)
               reach == Reachable(self.states, self.alphabet[1],
                                  self.initial_state[1].name)
           IN  /\ ~Raised(out.outcome)
               /\ out.outcome.value = <<>>
                  <=> \A n \in reach :
                         Get(self.states, n).accepting # out.accepted
               /\ out.outcome.value # <<>>
                  => AcceptsAs(self, out.outcome.value[1], out.accepted)

(* C5: after a load that returned success = true every state has exactly   *)
(* one transition per symbol of the alphabet, and none on any other        *)
(* symbol.                                                                 *)
C5_LoadedTransitionsTotal ==
    \A o \in {"dfa", "other"} :
        LoadedOK(o) =>
            \A i \in 1..Len(Self(o).states) :
                LET transition == Self(o).states[i][2].transition
                IN  /\ Range(Keys(transition)) = Range(Self(o).alphabet[1])
                    /\ Len(transition) = Cardinality(Range(Self(o).alphabet[1]))

(* C6: on an object whose most recent load did not return success = true,  *)
(* or that was never loaded, accepts, complement, union, get_example and   *)
(* minimize raise the "DFA not loaded" error; they neither return nor fail *)
(* in another way.                                                         *)
C6_UnloadedIsRefused ==
    (/\ out.op \in {"accepts", "invert", "or", "get_example", "minimize"}
     /\ out.self \in {"dfa", "other"}
     /\ ~LoadedOK(out.self))
        => out.outcome = NotLoadedError

(* C7: union, intersection and xor of two successfully loaded automatons   *)
(* succeed when the two alphabets hold the same symbols, in whatever       *)
(* order, and raise the alphabet mismatch only when the symbols differ.    *)
C7_AlphabetOrderIgnored ==
    (/\ out.op \in {"or", "and", "xor"}
     /\ LoadedOK("dfa")
     /\ LoadedOK("other"))
        => IF Range(dfa.alphabet[1]) = Range(other.alphabet[1])
           THEN out.outcome = Return("DFA")
           ELSE out.outcome = AlphabetMismatchError

(* C8: when the learner's automaton is the reference but for the accepting *)
(* flag of one state the initial state reaches, the equivalence check      *)
(* answers success = false and an example that is a non-empty string.      *)
C8_SwappedFlagIsFound ==
    (SubmitAnswered /\ OneFlagSwapped(dfa, other))
        => /\ "example" \in DOMAIN out.outcome.value
           /\ out.outcome.value.success = FALSE
           /\ out.outcome.value.example # <<>>
           /\ out.outcome.value.example # <<"">>

(* C9: dfa | other has one state per pair (state of dfa, state of other):  *)
(* different pairs have different names, so it has                         *)
(* |states(dfa)| x |states(other)| states, each accepting exactly when a   *)
(* state of its pair is.                                                   *)
C9_OneStatePerPair ==
    ResIsUnion =>
        LET product == res[1].dfa.states
            ps      == Pairs(dfa.states, other.states)
        IN  /\ Len(product) = Len(dfa.states) * Len(other.states)
            /\ \A i, j \in 1..Len(ps) :
                  i # j => PairName(ps[i][1].name, ps[i][2].name)
                           # PairName(ps[j][1].name, ps[j][2].name)
            /\ \A i \in 1..Len(ps) :
                  LET name == PairName(ps[i][1].name, ps[i][2].name)
                  IN  /\ Has(product, name)
                      /\ Get(product, name).accepting
                         = (ps[i][1].accepting \/ ps[i][2].accepting)

\* the partition the worklist loop of minimize ends with is the partition of
\* the states into the classes no string tells apart
C10_FinalPartition ==
    loop.pc = "done" =>
        LET names == StateNames(dfa.states)
            ids   == 1..Len(partition)
        IN  /\ \A i \in ids : partition[i] # {}
            /\ \A i, j \in ids : i # j => partition[i] \cap partition[j] = {}
            /\ UNION {partition[i] : i \in ids} = names
            /\ \A strings \in {StringsUpTo(dfa.alphabet[1], Len(dfa.states))} :
               \* the strings that drive each state to an accepting state
               \A accepted \in {[p \in names |->
                                   {string \in strings :
                                       Get(dfa.states,
                                           Drive(dfa.states, p, string)).accepting}]} :
               \A p, r \in names :
                  (\E i \in ids : p \in partition[i] /\ r \notin partition[i])
                  <=> accepted[p] # accepted[r]

(* C10: on an automaton with an accepting and a non-accepting state the    *)
(* worklist loop of minimize ends, and the partition it ends with has      *)
(* non-empty, pairwise disjoint groups that cover the states, two states   *)
(* lying in different groups exactly when some string distinguishes them.  *)
C10_MinimizeTerminatesStable ==
    /\ [](C10_FinalPartition)
    /\ (call.op = "minimize") ~> (loop.pc = "done")

\* a run that split the first two groups further and yet left states together
C10_Witness ==
    /\ loop.pc = "done"
    /\ LoadedOK("dfa")
    /\ Len(partition) > 2
    /\ Len(partition) < Len(dfa.states)

===========================================================================
